---- MODULE Spec2Model ----
(***************************************************************************)
(* A state-machine model of src/src/rtl-sdr.c, the RTL2832 SDR driver:     *)
(* device enumeration and open/close, tuner probing and the tuner          *)
(* registry, the I2C repeater gate, the tuner setters, sample-rate setup   *)
(* and the asynchronous streaming loop.                                    *)
(***************************************************************************)
EXTENDS Integers, Sequences, FiniteSets, TLC

VARIABLES
    bus,        \* attached USB devices in enumeration order: <<vid, pid>> each
    dev,        \* the caller's handle variables: pointer status and rtlsdr_dev_t fields
    tuners,     \* the static tuners[] table: freq/corr/gain per tuner variant
    hw,         \* per attached device: demodulator register page 1, address 0x01
    last,       \* what the most recent public call did and returned
    crashed,    \* the process took a fault
    pc,         \* position of the thread running rtlsdr_wait_async
    wait_r,     \* the local r of rtlsdr_wait_async: <<>> while uninitialized, else <<r>>
    inflight,   \* the slots whose transfer is submitted to the USB transport
    polls,      \* libusb_handle_events_timeout calls begun since run_async was cleared
    ctl,        \* per attached device, the control endpoint: the bytes last written at
                \* each (page, address field) of the demodulator
    done        \* what _libusb_callback did for the most recent transfer completion

vars == <<bus, dev, tuners, hw, last, crashed, pc, wait_r, inflight, polls, ctl, done>>

streamVars == <<pc, wait_r, inflight, polls, done>>

(***************************************************************************)
(* Bounds of the model.                                                    *)
(***************************************************************************)
MaxBus == 2
MaxPolls == 2

\* the caller's handle variables
Handles == {1, 2}

(***************************************************************************)
(* Program constants.                                                      *)
(***************************************************************************)
BUF_COUNT == 32
BUF_LENGTH == 16 * 16384
CRYSTAL_FREQ == 28800000
MAX_SAMP_RATE == 3200000

\* uint32_t values are kept as two 16-bit halves <<high, low>>
U32(n) == <<n \div 65536, n % 65536>>
U32_MAX == <<65535, 65535>>
U32Inc(x) == IF x[2] < 65535 THEN <<x[1], x[2] + 1>>
             ELSE IF x[1] < 65535 THEN <<x[1] + 1, 0>> ELSE <<0, 0>>
U32Dec(x) == IF x[2] > 0 THEN <<x[1], x[2] - 1>>
             ELSE IF x[1] > 0 THEN <<x[1] - 1, 65535>> ELSE U32_MAX

\* the identification values of tuner_e4000.h, tuner_fc0013.h, tuner_fc2580.h and
\* tuner_fc0012.h
E4K_CHECK_VAL == 64
FC0013_CHECK_VAL == 163
FC2580_CHECK_VAL == 86
FC0012_CHECK_VAL == 161

TunerKinds == {"E4000", "FC0012", "FC0013", "FC2580"}
NoTuner == "NULL"

\* the static supported-device table
devices == <<
    [vid |-> 3034, pid |-> 10290, name |-> "Generic RTL2832U (e.g. hama nano)"],
    [vid |-> 3034, pid |-> 10296, name |-> "ezcap USB 2.0 DVB-T/DAB/FM dongle"],
    [vid |-> 3277, pid |-> 169,   name |-> "Terratec Cinergy T Stick Black (rev 1)"],
    [vid |-> 3277, pid |-> 179,   name |-> "Terratec NOXON DAB/DAB+ USB dongle (rev 1)"],
    [vid |-> 3277, pid |-> 224,   name |-> "Terratec NOXON DAB/DAB+ USB dongle (rev 2)"],
    [vid |-> 8013, pid |-> 47107, name |-> "GTek T803"],
    [vid |-> 8013, pid |-> 51203, name |-> "Lifeview LV5TDeluxe"],
    [vid |-> 7040, pid |-> 54180, name |-> "Twintech UT-40"],
    [vid |-> 7449, pid |-> 4353,  name |-> "Dexatek DK DVB-T Dongle (Logilink VG0002A)"],
    [vid |-> 7449, pid |-> 4354,  name |-> "Dexatek DK DVB-T Dongle (MSI DigiVox mini II V3.0)"],
    [vid |-> 1112, pid |-> 28799, name |-> "Genius TVGo DVB-T03 USB dongle (Ver. B)"],
    [vid |-> 7040, pid |-> 54163, name |-> "GIGABYTE GT-U7300"],
    [vid |-> 7040, pid |-> 54165, name |-> "Peak 102569AGPK"],
    [vid |-> 7040, pid |-> 54173, name |-> "SVEON STV20 DVB-T USB & FM"] >>

\* index into devices of the first entry with this vid/pid, 0 for NULL
find_known_device(vid, pid) ==
    LET hits == {i \in 1..Len(devices) : devices[i].vid = vid /\ devices[i].pid = pid}
    IN IF hits = {} THEN 0 ELSE CHOOSE i \in hits : \A j \in hits : i <= j

(***************************************************************************)
(* Inputs the environment supplies.                                        *)
(***************************************************************************)
\* what may be attached: two catalogued devices and one foreign device
BusDevices == {<<3034, 10290>>, <<3277, 169>>, <<1133, 49271>>}

BusLists == UNION {[1..n -> BusDevices] : n \in 0..MaxBus}

Indexes == {U32(0), U32(1), U32_MAX}

CheckVal(t) ==
    CASE t = "E4000"  -> E4K_CHECK_VAL
      [] t = "FC0013" -> FC0013_CHECK_VAL
      [] t = "FC2580" -> FC2580_CHECK_VAL
      [] t = "FC0012" -> FC0012_CHECK_VAL

\* a byte with bit 7 flipped
FlipBit7(v) == IF v >= 128 THEN v - 128 ELSE v + 128

\* what the I2C responder may answer to the identification read of chip t
RespVals(t) == {0, CheckVal(t), FlipBit7(CheckVal(t))}

Responders ==
    {[E4000 |-> a, FC0013 |-> b, FC2580 |-> c, FC0012 |-> d] :
        a \in RespVals("E4000"), b \in RespVals("FC0013"),
        c \in RespVals("FC2580"), d \in RespVals("FC0012")}

NoResponder == [E4000 |-> 0, FC0013 |-> 0, FC2580 |-> 0, FC0012 |-> 0]

Freqs == {100000000}
Ppms == {25}
Gains == {10}
SampleRates == {2048000}

\* statuses of the external calls: libusb_open, libusb_claim_interface, tuner methods
UsbOpenRets == {0, -3}
ClaimRets == {0, -6}
TunerRets == {0, -1}

(***************************************************************************)
(* rtlsdr_dev_t and the log of a call.                                     *)
(***************************************************************************)
\* the indexes of xfer[] and xfer_buf[]
Slots == 1..BUF_COUNT

\* malloc + memset(0): every field zero. xfer, xfer_buf: the slots holding a
\* descriptor, a buffer; fill: the buffer slot each descriptor was last filled with
\* alias, of a released pointer only: the handle variable whose later rtlsdr_open was
\* given the same block by malloc, 0 when the block is not in use
ZeroDev == [ptr |-> "live", ctx |-> FALSE, devh |-> 0, tuner |-> NoTuner,
            rate |-> 0, run_async |-> 0, xfer |-> {}, xfer_buf |-> {},
            fill |-> [i \in Slots |-> 0], alias |-> 0]

NullDev == [ZeroDev EXCEPT !.ptr = "null"]

\* a released handle, pools included: the variable still holds the old address
FreedDev == [ZeroDev EXCEPT !.ptr = "freed"]

\* slots of the descriptor pool and of the buffer pool
NoPool == [xfer |-> {}, buf |-> {}]

NoRes == [mem |-> "none", ctx |-> "none", list |-> "none", devh |-> "none"]

\* op, h, ret: the call, its handle variable and the status returned
\* was: the handle's pointer status and tuner when the call was made
\* calls: the tuner methods invoked; io: register, I2C and GPIO accesses of note
\* ub: the undefined access performed, if any; dbl: resources released a second time
\* res: what became of the resources an rtlsdr_open call acquired
\* arg: the numeric argument of the call; args: the arguments of the calls in calls
\* reg: <<page, addr, len>> of a demodulator register access; ctrl: its control transfers
\* index: the device index passed; name: the string rtlsdr_get_device_name returned
\* alloc, free: the pool slots the call allocated, released
NoCall == [op |-> "none", h |-> 0, ret |-> 0, was |-> <<"null", NoTuner>>,
           calls |-> <<>>, io |-> <<>>, resp |-> NoResponder, ub |-> "none",
           res |-> NoRes, dbl |-> {}, arg |-> 0, args |-> <<>>,
           reg |-> <<0, 0, 0>>, ctrl |-> <<>>, index |-> <<0, 0>>, name |-> "",
           alloc |-> NoPool, free |-> NoPool]

Call(op, h, ret) == [NoCall EXCEPT !.op = op, !.h = h, !.ret = ret,
                                   !.was = <<dev[h].ptr, dev[h].tuner>>]

IO(k, a, v) == [k |-> k, a |-> a, v |-> v]

(***************************************************************************)
(* The I2C repeater gate: bit 3 of demodulator register 1:0x01.            *)
(***************************************************************************)
\* the value rtlsdr_set_i2c_repeater writes
rtlsdr_set_i2c_repeater(on) == IF on # 0 THEN 24 ELSE 16

GateOpen(v) == (v \div 8) % 2 = 1

\* a tuner method invoked while register 1:0x01 holds v
TunerCall(m, t, v) == [m |-> m, t |-> t, gate |-> GateOpen(v)]

(***************************************************************************)
(* Demodulator register access over the control endpoint.                  *)
(***************************************************************************)
DemodPages == {1, 10}
DemodAddrs == {0, 159}
DemodVals == [len1 |-> {90}, len2 |-> {4660, 13364}]

\* what an uninitialized byte of data[] may hold
JunkBytes == {0, 165}

\* one control transfer: direction, wIndex, wValue, and the bytes sent or asked for
Ctrl(dir, index, value, data) == [dir |-> dir, index |-> index, value |-> value,
                                  data |-> data]

\* the OUT transfer of rtlsdr_demod_write_reg: addr is uint16_t, the high byte of val
\* goes first when len is 2
demod_write_ctrl(page, addr, val, len) ==
    LET index == 16 + page
        value == ((addr * 256) % 65536) + 32
        data0 == IF len = 1 THEN val % 256 ELSE val \div 256
        data1 == val % 256
    IN Ctrl("out", index, value, SubSeq(<<data0, data1>>, 1, len))

\* the address field of rtlsdr_demod_read_reg, whose addr is uint8_t: (addr << 8) | 0x20
\* is stored back into the 8-bit parameter
demod_read_value(addr) == ((addr * 256) % 256) + 32

\* the IN transfer of rtlsdr_demod_read_reg
demod_read_ctrl(page, addr, len) == Ctrl("in", page, demod_read_value(addr), len)

\* the OUT transfer of rtlsdr_set_i2c_repeater
set_i2c_repeater_ctrl(on) == demod_write_ctrl(1, 1, rtlsdr_set_i2c_repeater(on), 1)

\* default FIR coefficients used for DAB/FM
fir_coeff == <<202, 220, 215, 216, 224, 242, 14, 53, 6, 80,
               156, 13, 113, 17, 20, 113, 116, 25, 65, 0>>

\* the demodulator register writes of rtlsdr_init_baseband, in order
rtlsdr_init_baseband ==
    <<demod_write_ctrl(1, 1, 20, 1), demod_write_ctrl(1, 1, 16, 1),
      demod_write_ctrl(1, 21, 0, 1), demod_write_ctrl(1, 22, 0, 2),
      demod_write_ctrl(1, 25, 0, 2)>>
    \o [i \in 1..Len(fir_coeff) |-> demod_write_ctrl(1, 28 + (i - 1), fir_coeff[i], 1)]
    \o <<demod_write_ctrl(0, 25, 37, 1), demod_write_ctrl(1, 147, 240, 1),
         demod_write_ctrl(1, 17, 0, 1), demod_write_ctrl(0, 97, 96, 1),
         demod_write_ctrl(0, 6, 128, 1), demod_write_ctrl(1, 177, 27, 1)>>

\* the demodulator register writes of a successful rtlsdr_open: the baseband, then the
\* repeater around the probing
open_ctrls ==
    rtlsdr_init_baseband \o <<set_i2c_repeater_ctrl(1), set_i2c_repeater_ctrl(0)>>

\* the demodulator register writes around the one tuner method of rtlsdr_set_center_freq
\* and of rtlsdr_deinit_baseband: repeater on, repeater off
repeater_ctrls == <<set_i2c_repeater_ctrl(1), set_i2c_repeater_ctrl(0)>>

\* the demodulator register writes of rtlsdr_set_sample_rate: ratio >> 16 to 1:0x9f,
\* ratio & 0xffff to 1:0xa1
set_sample_rate_ctrls(ratio) ==
    <<demod_write_ctrl(1, 159, ratio[1], 2), demod_write_ctrl(1, 161, ratio[2], 2)>>

\* where the transport keeps the bytes of a transfer: the page of wIndex and wValue
ctrl_key(c) == <<c.index % 16, c.value>>

\* the places the accesses of the model address
CtrlKeys ==
    {ctrl_key(demod_write_ctrl(p, a, 0, 1)) : p \in DemodPages, a \in DemodAddrs}
    \cup {ctrl_key(demod_read_ctrl(p, a, 1)) : p \in DemodPages, a \in DemodAddrs}
    \cup {ctrl_key(open_ctrls[i]) : i \in 1..Len(open_ctrls)}
    \cup {ctrl_key(set_sample_rate_ctrls(<<0, 0>>)[i]) : i \in 1..2}

\* the transport before any write: nothing stored anywhere
NoWrites == [k \in CtrlKeys |-> <<>>]

\* the transport: an OUT transfer stores its bytes at (page, address field)
ctrl_out(store, c) == [store EXCEPT ![ctrl_key(c)] = c.data]

\* the transport: the OUT transfers of cs one after the other
RECURSIVE ctrl_outs(_, _)
ctrl_outs(store, cs) ==
    IF cs = <<>> THEN store ELSE ctrl_outs(ctrl_out(store, Head(cs)), Tail(cs))

\* the transport: an IN transfer returns the bytes stored there, at most c.data of them
ctrl_in(store, c) ==
    LET got == store[ctrl_key(c)]
    IN SubSeq(got, 1, IF Len(got) < c.data THEN Len(got) ELSE c.data)

\* the control endpoint of attached device d after the OUT transfers of cs
ctl_after(d, cs) == [ctl EXCEPT ![d] = ctrl_outs(@, cs)]

\* the control endpoint of a device rtlsdr_open has set up
OpenedCtl == ctrl_outs(NoWrites, open_ctrls)

\* reg = (data[1] << 8) | data[0], data[] holding the bytes received and junk elsewhere
demod_read_decode(got, junk) ==
    LET data0 == IF Len(got) >= 1 THEN got[1] ELSE junk
        data1 == IF Len(got) >= 2 THEN got[2] ELSE junk
    IN data1 * 256 + data0

rtlsdr_demod_write_reg(h, page, addr, val, len) ==
    LET c == demod_write_ctrl(page, addr, val, len)
    IN /\ ~crashed
       /\ dev[h].ptr = "live"
       /\ ctl' = ctl_after(dev[h].devh, <<c>>)
       /\ last' = [Call("demod_write_reg", h, 0) EXCEPT
                     !.arg = val, !.reg = <<page, addr, len>>,
                     !.ctrl = <<c, demod_read_ctrl(10, 1, 1)>>]
       /\ UNCHANGED <<bus, dev, tuners, hw, crashed, streamVars>>

rtlsdr_demod_read_reg(h, page, addr, len, junk) ==
    LET c   == demod_read_ctrl(page, addr, len)
        got == ctrl_in(ctl[dev[h].devh], c)
    IN /\ ~crashed
       /\ dev[h].ptr = "live"
       /\ last' = [Call("demod_read_reg", h, demod_read_decode(got, junk)) EXCEPT
                     !.reg = <<page, addr, len>>,
                     !.ctrl = <<c>>,
                     !.ub = IF Len(got) < 2 THEN "uninit_read" ELSE "none"]
       /\ UNCHANGED <<ctl, bus, dev, tuners, hw, crashed, streamVars>>

(***************************************************************************)
(* rtlsdr_get_device_name.                                                 *)
(***************************************************************************)
\* the loop of rtlsdr_get_device_name: device when the loop is left, as an index into
\* devices, 0 for NULL
RECURSIVE name_scan(_, _, _, _, _)
name_scan(list, index, i, device_count, device) ==
    IF i > Len(list) THEN device
    ELSE LET d == find_known_device(list[i][1], list[i][2])
         IN IF d # 0
            THEN IF index = U32Dec(U32Inc(device_count))
                 THEN d
                 ELSE name_scan(list, index, i + 1, U32Inc(device_count), d)
            ELSE name_scan(list, index, i + 1, device_count, d)

\* the string returned
get_device_name(list, index) ==
    LET device == name_scan(list, index, 1, U32(0), 0)
    IN IF device # 0 THEN devices[device].name ELSE ""

rtlsdr_get_device_name(index) ==
    /\ ~crashed
    /\ last' = [NoCall EXCEPT !.op = "get_device_name", !.index = index,
                              !.name = get_device_name(bus, index)]
    /\ UNCHANGED <<ctl, bus, dev, tuners, hw, crashed, streamVars>>

(***************************************************************************)
(* rtlsdr_open.                                                            *)
(***************************************************************************)
\* the device selection loop: the list position selected, 0 for NULL
RECURSIVE open_scan(_, _, _, _)
open_scan(list, index, i, device_count) ==
    IF i > Len(list) THEN 0
    ELSE LET cnt == IF find_known_device(list[i][1], list[i][2]) # 0
                    THEN U32Inc(device_count)
                    ELSE device_count
         IN IF index = U32Dec(cnt)
            THEN i
            ELSE open_scan(list, index, i + 1, cnt)

\* probing in the order of enum rtlsdr_tuners: FC0012 is asked before FC0013
probe_tuners_enum_order(resp) ==
    LET e4k   == <<IO("i2c_read", "E4000", resp["E4000"])>>
        f12   == e4k \o <<IO("i2c_read", "FC0012", resp["FC0012"])>>
        f13   == f12 \o <<IO("i2c_read", "FC0013", resp["FC0013"])>>
        f2580 == f13 \o <<IO("gpio_output", "5", 0), IO("gpio_bit", "5", 1),
                          IO("gpio_bit", "5", 0),
                          IO("i2c_read", "FC2580", resp["FC2580"])>>
    IN IF resp["E4000"] = E4K_CHECK_VAL
       THEN [tuner |-> "E4000", io |-> e4k]
       ELSE IF resp["FC0012"] = FC0012_CHECK_VAL
       THEN [tuner |-> "FC0012", io |-> f12 \o <<IO("gpio_output", "6", 0)>>]
       ELSE IF resp["FC0013"] = FC0013_CHECK_VAL
       THEN [tuner |-> "FC0013", io |-> f13]
       ELSE IF resp["FC2580"] % 128 = FC2580_CHECK_VAL
       THEN [tuner |-> "FC2580", io |-> f2580]
       ELSE [tuner |-> NoTuner, io |-> f2580]

\* the FC0012 branch configures the GPIO but forgets to bind the tuner
probe_tuners_fc0012_unbound(resp) ==
    LET e4k   == <<IO("i2c_read", "E4000", resp["E4000"])>>
        f13   == e4k \o <<IO("i2c_read", "FC0013", resp["FC0013"])>>
        f2580 == f13 \o <<IO("gpio_output", "5", 0), IO("gpio_bit", "5", 1),
                          IO("gpio_bit", "5", 0),
                          IO("i2c_read", "FC2580", resp["FC2580"])>>
        f12   == f2580 \o <<IO("i2c_read", "FC0012", resp["FC0012"])>>
    IN IF resp["E4000"] = E4K_CHECK_VAL
       THEN [tuner |-> "E4000", io |-> e4k]
       ELSE IF resp["FC0013"] = FC0013_CHECK_VAL
       THEN [tuner |-> "FC0013", io |-> f13]
       ELSE IF resp["FC2580"] % 128 = FC2580_CHECK_VAL
       THEN [tuner |-> "FC2580", io |-> f2580]
       ELSE IF resp["FC0012"] = FC0012_CHECK_VAL
       THEN [tuner |-> NoTuner, io |-> f12 \o <<IO("gpio_output", "6", 0)>>]
       ELSE [tuner |-> NoTuner, io |-> f12]

\* the probing chain: the tuner bound and the bus and GPIO accesses issued
probe_tuners(resp) ==
    LET e4k   == <<IO("i2c_read", "E4000", resp["E4000"])>>
        f13   == e4k \o <<IO("i2c_read", "FC0013", resp["FC0013"])>>
        f2580 == f13 \o <<IO("gpio_output", "5", 0), IO("gpio_bit", "5", 1),
                          IO("gpio_bit", "5", 0),
                          IO("i2c_read", "FC2580", resp["FC2580"])>>
        f12   == f2580 \o <<IO("i2c_read", "FC0012", resp["FC0012"])>>
    IN IF resp["E4000"] = E4K_CHECK_VAL
       THEN [tuner |-> "E4000", io |-> e4k]
       ELSE IF resp["FC0013"] = FC0013_CHECK_VAL
       THEN [tuner |-> "FC0013", io |-> f13]
       ELSE IF resp["FC2580"] % 128 = FC2580_CHECK_VAL
       THEN [tuner |-> "FC2580", io |-> f2580]
       ELSE IF resp["FC0012"] = FC0012_CHECK_VAL
       THEN [tuner |-> "FC0012", io |-> f12 \o <<IO("gpio_output", "6", 0)>>]
       ELSE [tuner |-> NoTuner, io |-> f12]

\* the interface of attached device d is claimed through some live handle
Claimed(d) == \E g \in Handles : dev[g].ptr = "live" /\ dev[g].devh = d

\* the released pointers whose block malloc may hand to an rtlsdr_open on h
Reusable(h) == {g \in Handles \ {h} : dev[g].ptr = "freed" /\ dev[g].alias = 0}

\* reuse: the handle variable whose released block malloc returned, 0 for another block
rtlsdr_open(h, index, resp, open_r, claim_r, reuse) ==
    LET sel   == open_scan(bus, index, 1, U32(0))
        cl_r  == IF sel # 0 /\ Claimed(sel) THEN -6 ELSE claim_r
        p     == probe_tuners(resp)
        on    == rtlsdr_set_i2c_repeater(1)
        inits == IF p.tuner # NoTuner THEN <<TunerCall("init", p.tuner, on)>> ELSE <<>>
    IN /\ ~crashed
       /\ dev[h].ptr # "live"
       /\ IF sel = 0
          THEN \* no device: err path, the device list is not freed
               /\ last' = [Call("open", h, -1) EXCEPT
                             !.index = index,
                             !.res = [mem |-> "released", ctx |-> "released",
                                      list |-> "held", devh |-> "none"]]
               /\ UNCHANGED <<dev, hw, ctl>>
          ELSE IF open_r < 0
          THEN /\ last' = [Call("open", h, open_r) EXCEPT
                             !.index = index,
                             !.res = [mem |-> "released", ctx |-> "released",
                                      list |-> "released", devh |-> "none"]]
               /\ UNCHANGED <<dev, hw, ctl>>
          ELSE IF cl_r < 0
          THEN \* claim failed: err path, the opened device is not closed
               /\ last' = [Call("open", h, cl_r) EXCEPT
                             !.index = index,
                             !.res = [mem |-> "released", ctx |-> "released",
                                      list |-> "released", devh |-> "held"]]
               /\ UNCHANGED <<dev, hw, ctl>>
          ELSE /\ dev' = [g \in Handles |->
                            IF g = h
                            THEN [ZeroDev EXCEPT !.ctx = TRUE, !.devh = sel,
                                                 !.tuner = p.tuner]
                            ELSE IF g = reuse THEN [dev[g] EXCEPT !.alias = h]
                            ELSE dev[g]]
               /\ hw' = [hw EXCEPT ![sel] = rtlsdr_set_i2c_repeater(0)]
               /\ ctl' = ctl_after(sel, open_ctrls)
               /\ last' = [Call("open", h, 0) EXCEPT
                             !.index = index,
                             !.calls = inits, !.io = p.io, !.resp = resp,
                             !.res = [mem |-> "owned", ctx |-> "owned",
                                      list |-> "released", devh |-> "owned"]]
       /\ UNCHANGED <<bus, tuners, crashed, streamVars>>

(***************************************************************************)
(* rtlsdr_close, with rtlsdr_deinit_baseband.                              *)
(***************************************************************************)
\* the handle variable whose block the pointer of h addresses: h itself, or for a
\* released pointer the variable that was given the block since
Addressed(h) == IF dev[h].ptr = "freed" /\ dev[h].alias # 0 THEN dev[h].alias ELSE h

\* free(dev) on the block of g: the pointer of g dangles, and the block is no longer
\* in use for the released pointers that address it
Released(g) ==
    [k \in Handles |-> IF k = g THEN FreedDev
                       ELSE IF dev[k].alias = g THEN [dev[k] EXCEPT !.alias = 0]
                       ELSE dev[k]]

\* fault: the outcome of an undefined access is a fault (TRUE) or a return (FALSE)
\* stale: what a read of the tuner field of released memory yields
\* pools: the slots whose xfer[], xfer_buf[] pointer read from released memory is not
\* null: none, or those the first close left there, which are released again
rtlsdr_close(h, fault, stale, pools) ==
    LET d    == dev[h]
        g    == Addressed(h)
        b    == dev[g]
        on   == rtlsdr_set_i2c_repeater(1)
        off  == rtlsdr_set_i2c_repeater(0)
        down == <<IO("write_reg", "DEMOD_CTL", 32)>>
        uaf  == IF g # h THEN "use_after_free" ELSE "none"
    IN /\ ~crashed
       /\ CASE d.ptr = "null" ->
                 /\ last' = Call("close", h, -1)
                 /\ UNCHANGED <<dev, hw, ctl, crashed, inflight>>
            [] b.ptr = "live" /\ b.tuner # NoTuner ->
                 \* an open handle, or a released pointer into the block of one
                 /\ dev' = Released(g)
                 /\ hw' = [hw EXCEPT ![b.devh] = off]
                 /\ ctl' = ctl_after(b.devh, repeater_ctrls)
                 /\ inflight' = inflight
                 /\ last' = [Call("close", h, 0) EXCEPT
                               !.ub = uaf,
                               !.calls = <<TunerCall("exit", b.tuner, on)>>, !.io = down,
                               !.free = [xfer |-> b.xfer, buf |-> b.xfer_buf]]
                 /\ UNCHANGED crashed
            [] b.ptr = "live" /\ b.tuner = NoTuner ->
                 \* dev->tuner->exit through a null tuner pointer
                 IF fault
                 THEN /\ crashed' = TRUE
                      /\ hw' = [hw EXCEPT ![b.devh] = on]
                      /\ ctl' = ctl_after(b.devh, <<set_i2c_repeater_ctrl(1)>>)
                      /\ last' = [Call("close", h, 0) EXCEPT
                                    !.ub = IF g # h THEN uaf ELSE "null_deref"]
                      /\ UNCHANGED <<dev, inflight>>
                 ELSE /\ dev' = Released(g)
                      /\ hw' = [hw EXCEPT ![b.devh] = off]
                      /\ ctl' = ctl_after(b.devh, repeater_ctrls)
                      /\ last' = [Call("close", h, 0) EXCEPT
                                    !.ub = IF g # h THEN uaf ELSE "null_deref",
                                    !.io = down,
                                    !.free = [xfer |-> b.xfer, buf |-> b.xfer_buf]]
                      /\ UNCHANGED <<crashed, inflight>>
            [] d.ptr = "freed" /\ g = h ->
                 \* every field is read from released memory
                 IF fault
                 THEN /\ crashed' = TRUE
                      /\ last' = [Call("close", h, 0) EXCEPT !.ub = "use_after_free"]
                      /\ UNCHANGED <<dev, hw, ctl, inflight>>
                 ELSE /\ dev' = [dev EXCEPT ![h] = FreedDev]
                      /\ last' = [Call("close", h, 0) EXCEPT
                                    !.ub = "use_after_free",
                                    !.calls = IF stale = NoTuner THEN <<>>
                                              ELSE <<TunerCall("exit", stale, on)>>,
                                    !.io = down,
                                    !.free = pools,
                                    !.dbl = {"interface", "devh", "ctx", "mem"}]
                      /\ UNCHANGED <<hw, ctl, crashed, inflight>>
       /\ UNCHANGED <<bus, tuners, pc, wait_r, polls, done>>

(***************************************************************************)
(* The tuner setters and getters.                                          *)
(***************************************************************************)
NoHandle(h) == dev[h].ptr = "null"

\* !dev || !dev->tuner
NoDevOrTuner(h) == NoHandle(h) \/ dev[h].tuner = NoTuner

\* the tune call of rtlsdr_set_center_freq, bracketed by the repeater
SetCenterFreqCalls(t) == <<TunerCall("tune", t, rtlsdr_set_i2c_repeater(1))>>

rtlsdr_set_center_freq(h, freq, tune_r) ==
    /\ ~crashed
    /\ dev[h].ptr # "freed"
    /\ IF NoDevOrTuner(h)
       THEN /\ last' = Call("set_center_freq", h, -1)
            /\ UNCHANGED <<tuners, hw, ctl>>
       ELSE LET t == dev[h].tuner
            IN /\ hw' = [hw EXCEPT ![dev[h].devh] = rtlsdr_set_i2c_repeater(0)]
               /\ ctl' = ctl_after(dev[h].devh, repeater_ctrls)
               /\ tuners' = IF tune_r = 0
                            THEN [tuners EXCEPT ![t].freq = freq]
                            ELSE tuners
               /\ last' = [Call("set_center_freq", h, tune_r) EXCEPT
                             !.calls = SetCenterFreqCalls(t)]
    /\ UNCHANGED <<bus, dev, crashed, streamVars>>

rtlsdr_get_center_freq(h) == IF NoDevOrTuner(h) THEN -1 ELSE tuners[dev[h].tuner].freq

\* the status rtlsdr_set_freq_correction returns: -1 without a handle or a tuner, -1
\* when corr already equals ppm, else the status of the retune
set_freq_correction_ret(h, ppm, tune_r) ==
    IF NoDevOrTuner(h) THEN -1
    ELSE IF tuners[dev[h].tuner].corr = ppm THEN -1
    ELSE tune_r

rtlsdr_set_freq_correction(h, ppm, tune_r) ==
    LET r == set_freq_correction_ret(h, ppm, tune_r)
    IN /\ ~crashed
       /\ dev[h].ptr # "freed"
       /\ IF NoDevOrTuner(h)
          THEN /\ last' = [Call("set_freq_correction", h, r) EXCEPT !.arg = ppm]
               /\ UNCHANGED <<tuners, hw, ctl>>
          ELSE LET t == dev[h].tuner
               IN IF tuners[t].corr = ppm
                  THEN /\ last' = [Call("set_freq_correction", h, r) EXCEPT !.arg = ppm]
                       /\ UNCHANGED <<tuners, hw, ctl>>
                  ELSE \* corr is stored first, then the retune to the cached freq
                       /\ hw' = [hw EXCEPT ![dev[h].devh] = rtlsdr_set_i2c_repeater(0)]
                       /\ ctl' = ctl_after(dev[h].devh, repeater_ctrls)
                       /\ tuners' = [tuners EXCEPT ![t].corr = ppm]
                       /\ last' = [Call("set_freq_correction", h, r) EXCEPT
                                     !.arg = ppm, !.calls = SetCenterFreqCalls(t)]
       /\ UNCHANGED <<bus, dev, crashed, streamVars>>

rtlsdr_get_freq_correction(h) == IF NoDevOrTuner(h) THEN -1 ELSE tuners[dev[h].tuner].corr

\* e4k_set_gain, fc0012_set_gain, fc0013_set_gain, fc2580_set_gain
tuner_set_gain(t, gain) == 0

\* the set_gain call of rtlsdr_set_tuner_gain: the repeater is left as it is
SetTunerGainCalls(h, t) == <<TunerCall("set_gain", t, hw[dev[h].devh])>>

rtlsdr_set_tuner_gain(h, gain) ==
    /\ ~crashed
    /\ dev[h].ptr # "freed"
    /\ IF NoDevOrTuner(h)
       THEN /\ last' = Call("set_tuner_gain", h, -1)
            /\ UNCHANGED tuners
       ELSE LET t == dev[h].tuner
                r == tuner_set_gain(t, gain)
            IN /\ tuners' = IF r = 0 THEN [tuners EXCEPT ![t].gain = gain] ELSE tuners
               /\ last' = [Call("set_tuner_gain", h, r) EXCEPT
                             !.calls = SetTunerGainCalls(h, t)]
    /\ UNCHANGED <<ctl, bus, dev, hw, crashed, streamVars>>

rtlsdr_get_tuner_gain(h) == IF NoDevOrTuner(h) THEN -1 ELSE tuners[dev[h].tuner].gain

(***************************************************************************)
(* rtlsdr_set_sample_rate.                                                 *)
(***************************************************************************)
\* a clamp that lets MAX_SAMP_RATE + 1 through
clamp_samp_rate_above(rate) == IF rate > MAX_SAMP_RATE + 1 THEN MAX_SAMP_RATE ELSE rate

\* check for the maximum rate the resampler supports
clamp_samp_rate(rate) == IF rate > MAX_SAMP_RATE THEN MAX_SAMP_RATE ELSE rate

\* rsamp_ratio: (CRYSTAL_FREQ * 2^22) / samp_rate converted to uint32_t, low two bits
\* cleared, as the halves <<ratio >> 16, ratio & 0xffff>>. CRYSTAL_FREQ * 2^22 is
\* (CRYSTAL_FREQ * 64) * 2^16, divided here by long division in base 256. A quotient
\* of 2^32 or more is reduced modulo 2^32.
rsamp_ratio(samp_rate) ==
    LET top == CRYSTAL_FREQ * 64
        hi  == top \div samp_rate
        r0  == top % samp_rate
        d1  == (r0 * 256) \div samp_rate
        r1  == (r0 * 256) % samp_rate
        d2  == (r1 * 256) \div samp_rate
        lo  == d1 * 256 + d2
    IN <<hi % 65536, lo - (lo % 4)>>

\* the quotient does not fit uint32_t: the conversion from double is undefined
rsamp_overflows(samp_rate) == (CRYSTAL_FREQ * 64) \div samp_rate >= 65536

\* what the builds make of the undefined conversion: the low 32 bits, or UINT32_MAX
RatioConvs == {"wrap", "saturate"}

\* rsamp_ratio after &= ~3, under conversion outcome conv
rsamp_ratio_conv(samp_rate, conv) ==
    IF rsamp_overflows(samp_rate) /\ conv = "saturate"
    THEN <<65535, 65532>>
    ELSE rsamp_ratio(samp_rate)

INT_MAX == 2147483647
INT_MIN == -2147483647 - 1

RECURSIVE shift_div(_, _, _, _)
\* n further binary digits of the quotient of rem * 2^n by d, appended to q
shift_div(q, rem, d, n) ==
    IF n = 0 THEN q
    ELSE IF 2 * rem >= d
         THEN shift_div(2 * q + 1, 2 * rem - d, d, n - 1)
         ELSE shift_div(2 * q, 2 * rem, d, n - 1)

\* real_rate = (CRYSTAL_FREQ * 2^22) / rsamp_ratio does not fit the int bw of set_bw
\* (rsamp_ratio = 0 gives infinity): a quarter of the ratio is at most
\* CRYSTAL_FREQ * 2^38 / 2^33 / 4
real_rate_overflows(ratio) ==
    ratio[1] * 16384 + ratio[2] \div 4 <= (CRYSTAL_FREQ * 16) \div 32768

\* real_rate as set_bw receives it: truncated to int; junk where that is undefined.
\* Dividend and divisor are both divided by 4, the ratio being a multiple of 4.
real_rate(ratio, junk) ==
    LET top4   == CRYSTAL_FREQ * 16
        ratio4 == ratio[1] * 16384 + ratio[2] \div 4
    IN IF real_rate_overflows(ratio)
       THEN junk
       ELSE shift_div(top4 \div ratio4, top4 % ratio4, ratio4, 16)

\* the set_bw call of rtlsdr_set_sample_rate: the repeater is left as it is
SetSampleRateCalls(h) ==
    IF dev[h].tuner # NoTuner
    THEN <<TunerCall("set_bw", dev[h].tuner, hw[dev[h].devh])>>
    ELSE <<>>

\* the arguments of the set_bw call, one per call of SetSampleRateCalls
SetSampleRateArgs(h, bw) == IF dev[h].tuner # NoTuner THEN <<bw>> ELSE <<>>

\* conv, junk: the outcomes of the undefined conversions, where there are any
rtlsdr_set_sample_rate(h, rate, conv, junk) ==
    LET samp_rate == clamp_samp_rate(rate)
        ratio     == rsamp_ratio_conv(samp_rate, conv)
        bw        == real_rate(ratio, junk)
        ub        == IF rsamp_overflows(samp_rate) \/ real_rate_overflows(ratio)
                     THEN "float_to_int" ELSE "none"
    IN /\ ~crashed
       /\ dev[h].ptr # "freed"
       /\ IF NoHandle(h)
          THEN /\ last' = [Call("set_sample_rate", h, -1) EXCEPT !.arg = rate]
               /\ UNCHANGED <<dev, ctl>>
          ELSE /\ dev' = [dev EXCEPT ![h].rate = samp_rate]
               /\ ctl' = ctl_after(dev[h].devh, set_sample_rate_ctrls(ratio))
               /\ last' = [Call("set_sample_rate", h, 0) EXCEPT
                             !.arg = rate,
                             !.ub = ub,
                             !.calls = SetSampleRateCalls(h),
                             !.args = SetSampleRateArgs(h, bw),
                             !.io = <<IO("demod_write_reg", "1:0x9f", ratio[1]),
                                      IO("demod_write_reg", "1:0xa1", ratio[2])>>]
       /\ UNCHANGED <<bus, tuners, hw, crashed, streamVars>>

rtlsdr_get_sample_rate(h) == IF NoHandle(h) THEN -1 ELSE dev[h].rate

(***************************************************************************)
(* The device manager: calls on the handle variables by a single owner.    *)
(***************************************************************************)
ZeroTuner == [freq |-> 0, corr |-> 0, gain |-> 0]

\* no transfer completion handled yet
NoDone == [slot |-> 0, status |-> "none", len |-> 0, cb |-> <<>>, submit |-> <<>>]

Idle == /\ pc = "idle"
        /\ wait_r = <<>>
        /\ inflight = {}
        /\ polls = 0
        /\ done = NoDone

Init ==
    /\ bus \in BusLists
    /\ dev = [h \in Handles |-> NullDev]
    /\ tuners = [t \in TunerKinds |-> ZeroTuner]
    /\ hw = [d \in 1..Len(bus) |-> rtlsdr_set_i2c_repeater(0)]
    /\ last = NoCall
    /\ crashed = FALSE
    /\ Idle
    /\ ctl = [d \in 1..Len(bus) |-> NoWrites]

\* the inputs of one rtlsdr_open call: the responder's answers and the USB statuses
OpenInputs(R) ==
    {[resp |-> NoResponder, open_r |-> r, claim_r |-> 0] : r \in UsbOpenRets \ {0}}
    \cup {[resp |-> NoResponder, open_r |-> 0, claim_r |-> r] : r \in ClaimRets \ {0}}
    \cup {[resp |-> r, open_r |-> 0, claim_r |-> 0] : r \in R}

\* what the xfer[] and xfer_buf[] of a released block may hold: null pointers, or the
\* pointers of every slot as rtlsdr_close left them
StalePools == {NoPool, [xfer |-> Slots, buf |-> Slots]}

\* the outcomes of the undefined accesses one rtlsdr_close call can make
CloseInputs(h) ==
    LET b == dev[Addressed(h)]
    IN IF b.ptr = "freed"
       THEN {[fault |-> TRUE, stale |-> NoTuner, pools |-> NoPool]}
            \cup {[fault |-> FALSE, stale |-> t, pools |-> p] :
                     t \in TunerKinds \cup {NoTuner}, p \in StalePools}
       ELSE IF b.ptr = "live" /\ b.tuner = NoTuner
       THEN {[fault |-> f, stale |-> NoTuner, pools |-> NoPool] : f \in BOOLEAN}
       ELSE {[fault |-> FALSE, stale |-> NoTuner, pools |-> NoPool]}

Open(H, R) == \E h \in H, index \in Indexes, in \in OpenInputs(R) :
                \E reuse \in {0} \cup Reusable(h) :
                    rtlsdr_open(h, index, in.resp, in.open_r, in.claim_r, reuse)

Close(H) == \E h \in H : \E in \in CloseInputs(h) :
                rtlsdr_close(h, in.fault, in.stale, in.pools)

SetCenterFreq(H) == \E h \in H, freq \in Freqs, r \in TunerRets :
                        rtlsdr_set_center_freq(h, freq, r)

SetFreqCorrection(H) == \E h \in H, ppm \in Ppms, r \in TunerRets :
                            rtlsdr_set_freq_correction(h, ppm, r)

SetTunerGain(H) == \E h \in H, gain \in Gains : rtlsdr_set_tuner_gain(h, gain)

\* the outcomes of the undefined conversions one rtlsdr_set_sample_rate call can make
RateInputs(rate) ==
    LET samp_rate == clamp_samp_rate(rate)
        convs     == IF rsamp_overflows(samp_rate) THEN RatioConvs ELSE {"wrap"}
    IN UNION {{[conv |-> c, junk |-> j] :
                 j \in IF real_rate_overflows(rsamp_ratio_conv(samp_rate, c))
                       THEN {INT_MIN, INT_MAX} ELSE {INT_MIN}} : c \in convs}

SetSampleRateOf(H, R) == \E h \in H, rate \in R : \E in \in RateInputs(rate) :
                            rtlsdr_set_sample_rate(h, rate, in.conv, in.junk)

SetSampleRate(H) == SetSampleRateOf(H, SampleRates)

\* one owner, one handle variable, any bus
Owner == {1}

\* responders that identify as one chip, or as none
OnlyChip(t) == [c \in TunerKinds |-> IF c = t THEN CheckVal(t) ELSE 0]

SomeResponders == {OnlyChip("E4000"), OnlyChip("FC0012"), NoResponder}

Next ==
    \/ Open(Owner, SomeResponders)
    \/ Close(Owner)
    \/ SetCenterFreq(Owner)
    \/ SetFreqCorrection(Owner)
    \/ SetTunerGain(Owner)
    \/ SetSampleRate(Owner)

Spec == Init /\ [][Next]_vars

(***************************************************************************)
(* The streaming engine: rtlsdr_wait_async runs on the owner's thread,     *)
(* _libusb_callback inside libusb_handle_events_timeout on that thread,    *)
(* rtlsdr_cancel_async on any thread.                                      *)
(***************************************************************************)
\* the submit loop: every slot is submitted, also one still in flight
SubmitAll(q) == q \cup Slots

\* the status rtlsdr_cancel_async returns
cancel_async_ret(h) ==
    IF NoHandle(h) THEN -1 ELSE IF dev[h].run_async # 0 THEN 0 ELSE -2

\* the handle after rtlsdr_cancel_async
cancel_async_dev(h) ==
    IF ~NoHandle(h) /\ dev[h].run_async # 0
    THEN [dev EXCEPT ![h].run_async = 0]
    ELSE dev

rtlsdr_cancel_async(h) ==
    /\ ~crashed
    /\ dev[h].ptr # "freed"
    /\ last' = Call("cancel_async", h, cancel_async_ret(h))
    /\ dev' = cancel_async_dev(h)
    /\ UNCHANGED <<ctl, bus, tuners, hw, crashed, streamVars>>

\* an allocation loop without the test of the slot: every slot is allocated anew
pool_alloc_all(have) == Slots

\* the allocation loops: the slots allocated, given the slots that hold a pointer
pool_alloc(have) == Slots \ have

\* rtlsdr_wait_async up to the loop: pools allocated where missing, every slot
\* submitted, run_async set
rtlsdr_wait_async(h) ==
    /\ ~crashed
    /\ pc \in {"idle", "returned"}
    /\ dev[h].ptr # "freed"
    /\ IF NoHandle(h)
       THEN /\ last' = Call("wait_async", h, -1)
            /\ UNCHANGED <<dev, streamVars>>
       ELSE /\ dev' = [dev EXCEPT ![h].xfer = @ \cup pool_alloc(@),
                                  ![h].xfer_buf = @ \cup pool_alloc(@),
                                  ![h].fill = [i \in Slots |-> i],
                                  ![h].run_async = 1]
            /\ inflight' = SubmitAll(inflight)
            /\ last' = [Call("wait_async_enter", h, 0) EXCEPT
                          !.io = <<IO("submit_in_flight", "", Cardinality(inflight))>>,
                          !.alloc = [xfer |-> pool_alloc(dev[h].xfer),
                                     buf |-> pool_alloc(dev[h].xfer_buf)]]
            /\ pc' = "check"
            /\ wait_r' = <<>>
            /\ polls' = 0
    /\ UNCHANGED <<ctl, bus, tuners, hw, crashed, done>>

\* a loop that never tests run_async again
wait_async_running_forever(h) == TRUE

\* the loop condition
wait_async_running(h) == dev[h].run_async # 0

\* while (dev->run_async): enter the body, or leave the loop and return r;
\* junk is what an uninitialized r holds
wait_async_check(h, junk) ==
    /\ ~crashed
    /\ pc = "check"
    /\ IF wait_async_running(h)
       THEN /\ pc' = "call"
            /\ UNCHANGED last
       ELSE /\ pc' = "returned"
            /\ last' = IF wait_r = <<>>
                       THEN [Call("wait_async", h, junk) EXCEPT !.ub = "uninit_read"]
                       ELSE Call("wait_async", h, wait_r[1])
    /\ UNCHANGED <<ctl, bus, dev, tuners, hw, crashed, wait_r, inflight, polls, done>>

\* libusb_handle_events_timeout is entered
handle_events_begin(h) ==
    /\ ~crashed
    /\ pc = "call"
    /\ pc' = "poll"
    /\ polls' = IF dev[h].run_async = 0 /\ polls < MaxPolls THEN polls + 1 ELSE polls
    /\ UNCHANGED <<ctl, bus, dev, tuners, hw, last, crashed, wait_r, inflight, done>>

\* a handler that treats every status as a completion
transfer_completed_any(status) == TRUE

\* LIBUSB_TRANSFER_COMPLETED == transfer->status
transfer_completed(status) == status = "completed"

\* _libusb_callback for the transfer of slot i, finished with status and actual_length
\* len; cb_cancels: the user callback calls rtlsdr_cancel_async
libusb_callback(h, i, status, len, cb_cancels) ==
    /\ ~crashed
    /\ pc = "poll"
    /\ i \in inflight
    /\ IF transfer_completed(status)
       THEN /\ inflight' = (inflight \ {i}) \cup {i}
            /\ done' = [slot |-> i, status |-> status, len |-> len,
                        cb |-> <<[buf |-> dev[h].fill[i], len |-> len]>>,
                        submit |-> <<i>>]
            /\ IF cb_cancels
               THEN /\ last' = Call("cancel_async", h, cancel_async_ret(h))
                    /\ dev' = cancel_async_dev(h)
               ELSE UNCHANGED <<last, dev>>
       ELSE /\ inflight' = inflight \ {i}
            /\ done' = [slot |-> i, status |-> status, len |-> len,
                        cb |-> <<>>, submit |-> <<>>]
            /\ UNCHANGED <<last, dev>>
    /\ UNCHANGED <<ctl, bus, tuners, hw, crashed, pc, wait_r, polls>>

\* libusb_handle_events_timeout returns r; r < 0 breaks out of the loop
handle_events_return(h, r) ==
    /\ ~crashed
    /\ pc = "poll"
    /\ wait_r' = <<r>>
    /\ IF r < 0
       THEN /\ pc' = "returned"
            /\ last' = Call("wait_async", h, r)
       ELSE /\ pc' = "check"
            /\ UNCHANGED last
    /\ UNCHANGED <<ctl, bus, dev, tuners, hw, crashed, inflight, polls, done>>

TransferStatuses == {"completed", "error"}
HandleEventsRets == {0, -1}
JunkRets == {0, -1}

WaitAsync(H) == \E h \in H : rtlsdr_wait_async(h)
WaitAsyncCheck(H) == \E h \in H, junk \in JunkRets : wait_async_check(h, junk)
HandleEventsBegin(H) == \E h \in H : handle_events_begin(h)
\* the actual_length of a finished transfer: a short one or a full buffer
ActualLengths == {512, BUF_LENGTH}

\* the transfers whose completion is followed: the first two slots and the last
CompletingSlots == {1, 2, BUF_COUNT}

Completion(H) ==
    \E h \in H, i \in CompletingSlots, st \in TransferStatuses, len \in ActualLengths,
       c \in BOOLEAN :
        libusb_callback(h, i, st, IF st = "completed" THEN len ELSE 0, c)

\* the owner calls rtlsdr_close while it is not inside rtlsdr_wait_async
CloseStream(H) == pc \in {"idle", "returned"} /\ Close(H)
HandleEventsReturn(H) == \E h \in H, r \in HandleEventsRets : handle_events_return(h, r)
CancelAsync(H) == \E h \in H : rtlsdr_cancel_async(h)

\* one catalogued device, opened on handle variable 1 with an E4000 bound
InitStream ==
    /\ bus = <<<<3034, 10290>>>>
    /\ dev = [h \in Handles |->
                IF h = 1 THEN [ZeroDev EXCEPT !.ctx = TRUE, !.devh = 1, !.tuner = "E4000"]
                ELSE NullDev]
    /\ tuners = [t \in TunerKinds |-> ZeroTuner]
    /\ hw = [d \in 1..Len(bus) |-> rtlsdr_set_i2c_repeater(0)]
    /\ last = NoCall
    /\ crashed = FALSE
    /\ Idle
    /\ ctl = [d \in 1..Len(bus) |-> OpenedCtl]

NextStream ==
    \/ WaitAsync(Owner)
    \/ WaitAsyncCheck(Owner)
    \/ HandleEventsBegin(Owner)
    \/ Completion(Owner)
    \/ HandleEventsReturn(Owner)
    \/ CancelAsync(Owner)
    \/ CloseStream(Owner)

SpecStream == InitStream /\ [][NextStream]_vars

\* the streaming thread keeps running and libusb_handle_events_timeout returns
\* within its timeout
FairStream ==
    /\ SpecStream
    /\ WF_vars(WaitAsyncCheck(Owner))
    /\ WF_vars(HandleEventsBegin(Owner))
    /\ WF_vars(HandleEventsReturn(Owner))

(***************************************************************************)
(* Probing against every responder; two handle variables on two devices.   *)
(***************************************************************************)
NextProbe ==
    \/ Open(Owner, Responders)
    \/ Close(Owner)

SpecProbe == Init /\ [][NextProbe]_vars

\* two catalogued devices of the same make
InitPair ==
    /\ Init
    /\ bus = <<<<3034, 10290>>, <<3034, 10290>>>>

\* responders that identify as an E4000, or as no chip
PairResponders == {OnlyChip("E4000"), NoResponder}

NextPair ==
    \/ Open(Handles, PairResponders)
    \/ Close(Handles)
    \/ SetCenterFreq(Handles)
    \/ SetFreqCorrection(Handles)
    \/ SetTunerGain(Handles)

SpecPair == InitPair /\ [][NextPair]_vars

(***************************************************************************)
(* Sample-rate setup over a range of requested rates.                      *)
(***************************************************************************)
\* requested rates: around the quotient 2^32 (28125), around MAX_SAMP_RATE, and between
RequestedRates == {1, 1000, 5625, 28124, 28125, 28126, 56250, 225001, 250000, 900001,
                   1000000, 1024000, 1800000, 2048000, 2400000, 3199999, 3200000,
                   3200001, 4000000, INT_MAX}

\* one catalogued device, opened on handle variable 1 with any tuner bound, or none
InitRate ==
    /\ bus = <<<<3034, 10290>>>>
    /\ \E t \in TunerKinds \cup {NoTuner} :
          dev = [h \in Handles |->
                   IF h = 1 THEN [ZeroDev EXCEPT !.ctx = TRUE, !.devh = 1, !.tuner = t]
                   ELSE NullDev]
    /\ tuners = [t \in TunerKinds |-> ZeroTuner]
    /\ hw = [d \in 1..Len(bus) |-> rtlsdr_set_i2c_repeater(0)]
    /\ last = NoCall
    /\ crashed = FALSE
    /\ Idle
    /\ ctl = [d \in 1..Len(bus) |-> OpenedCtl]

NextRate == SetSampleRateOf(Owner, RequestedRates)

SpecRate == InitRate /\ [][NextRate]_vars

(***************************************************************************)
(* Demodulator register writes and reads against the storing transport.    *)
(***************************************************************************)
DemodWrite(H) ==
    \E h \in H, page \in DemodPages, addr \in DemodAddrs, len \in {1, 2} :
        \E val \in IF len = 1 THEN DemodVals.len1 ELSE DemodVals.len2 :
            rtlsdr_demod_write_reg(h, page, addr, val, len)

DemodRead(H) ==
    \E h \in H, page \in DemodPages, addr \in DemodAddrs, len \in {1, 2},
       junk \in JunkBytes :
        rtlsdr_demod_read_reg(h, page, addr, len, junk)

NextReg ==
    \/ DemodWrite(Owner)
    \/ DemodRead(Owner)

SpecReg == InitStream /\ [][NextReg]_vars

(***************************************************************************)
(* Enumeration: device names and open by index, on any bus.                *)
(***************************************************************************)
NameIndexes == Indexes \cup {U32(2), U32(65536)}

GetDeviceName == \E index \in NameIndexes : rtlsdr_get_device_name(index)

NextEnum ==
    \/ GetDeviceName
    \/ Open(Owner, {OnlyChip("E4000")})
    \/ Close(Owner)

SpecEnum == Init /\ [][NextEnum]_vars

(***************************************************************************)
(* Properties.                                                             *)
(***************************************************************************)
Chain == <<"E4000", "FC0013", "FC2580", "FC0012">>

\* the answer v carries the signature of chip t
Matches(t, v) == IF t = "FC2580" THEN v % 128 = FC2580_CHECK_VAL ELSE v = CheckVal(t)

\* positions in Chain whose signature the responder of the last open matches
Matching == {i \in 1..Len(Chain) : Matches(Chain[i], last.resp[Chain[i]])}

\* the chips whose identification register the last call read, in order
IdReads ==
    LET reads == SelectSeq(last.io, LAMBDA x : x.k = "i2c_read")
    IN [i \in 1..Len(reads) |-> reads[i].a]

OpenSucceeded == last.op = "open" /\ last.ret = 0

\* C1: after a successful open the bound tuner is the earliest variant of the chain
\* E4000, FC0013, FC2580, FC0012 whose signature the responder matches, and the
\* identification reads issued are exactly those of the chain up to that variant
\* (all four, and no tuner bound, when none matches).
C1_ProbePriority ==
    OpenSucceeded =>
        IF Matching = {}
        THEN dev[last.h].tuner = NoTuner /\ IdReads = Chain
        ELSE LET first == CHOOSE i \in Matching : \A j \in Matching : i <= j
             IN /\ dev[last.h].tuner = Chain[first]
                /\ IdReads = SubSeq(Chain, 1, first)

\* an open whose responder matches FC0013, FC2580 and FC0012 at once
C1_Witness ==
    /\ OpenSucceeded
    /\ Matching = {2, 3, 4}
    /\ dev[last.h].tuner = "FC0013"

\* C2 as stated: every successful open leaves a tuner bound to the handle.
C2_TunerAlwaysBound == OpenSucceeded => dev[last.h].tuner \in TunerKinds

\* C2 amended: after a successful open the handle has a tuner bound exactly when
\* the responder matched some variant's signature; with no match open still
\* succeeds with no tuner bound, and a bound tuner had its init called once.
C2_TunerBoundIffMatched ==
    OpenSucceeded =>
        /\ (dev[last.h].tuner \in TunerKinds) <=> (Matching # {})
        /\ (dev[last.h].tuner = NoTuner) <=> (Matching = {})
        /\ last.calls = IF Matching = {} THEN <<>>
                        ELSE <<[m |-> "init", t |-> dev[last.h].tuner, gate |-> TRUE]>>

\* an open that succeeded with no signature matched
C2_Witness ==
    /\ OpenSucceeded
    /\ Matching = {}
    /\ dev[last.h].ptr = "live"
    /\ dev[last.h].tuner = NoTuner

NeedsTuner == {"close", "set_center_freq", "set_freq_correction", "set_tuner_gain",
               "set_sample_rate"}

\* C3: a call that needs a tuner, made on a handle opened with no tuner matched,
\* returns a status without touching the absent tuner: no undefined access, no fault,
\* no tuner method invoked, and the getters answer -1.
C3_DegradedModeIsSafe ==
    /\ (last.op \in NeedsTuner /\ last.was = <<"live", NoTuner>>) =>
            /\ last.ub = "none"
            /\ ~crashed
            /\ last.calls = <<>>
    /\ \A h \in Handles :
            (dev[h].ptr = "live" /\ dev[h].tuner = NoTuner) =>
                /\ rtlsdr_get_center_freq(h) = -1
                /\ rtlsdr_get_freq_correction(h) = -1
                /\ rtlsdr_get_tuner_gain(h) = -1

\* C4: every tuner method a public call invoked ran with the repeater gate open,
\* and the gate of every device is closed once the call has returned.
C4_GateOpenDuringTunerCalls ==
    /\ \A i \in 1..Len(last.calls) : last.calls[i].gate
    /\ ~crashed => \A d \in 1..Len(bus) : ~GateOpen(hw[d])

\* C5: right after a successful open, before any setter is called on the new
\* handle, the getters of a bound tuner return 0.
C5_FreshStateAfterOpen ==
    (OpenSucceeded /\ dev[last.h].tuner \in TunerKinds) =>
        /\ rtlsdr_get_center_freq(last.h) = 0
        /\ rtlsdr_get_freq_correction(last.h) = 0
        /\ rtlsdr_get_tuner_gain(last.h) = 0

Setters == {"set_center_freq", "set_freq_correction", "set_tuner_gain"}

\* C6: a setter called on one handle leaves what the getters return on every
\* other open handle unchanged.
C6_SettersAreScoped ==
    [][\A g \in Handles :
          (last'.op \in Setters /\ last'.h # g /\ dev[g].ptr = "live") =>
              /\ rtlsdr_get_center_freq(g)' = rtlsdr_get_center_freq(g)
              /\ rtlsdr_get_freq_correction(g)' = rtlsdr_get_freq_correction(g)
              /\ rtlsdr_get_tuner_gain(g)' = rtlsdr_get_tuner_gain(g)]_vars

\* C7: close on a null handle or on a handle already closed returns an error code,
\* makes no undefined access, invokes nothing and releases nothing again.
C7_CloseIdempotent ==
    (last.op = "close" /\ last.was[1] \in {"null", "freed"}) =>
        /\ last.ret < 0
        /\ last.ub = "none"
        /\ ~crashed
        /\ last.calls = <<>>
        /\ last.dbl = {}

\* C8: when open returns an error, nothing it acquired is still held.
C8_OpenFailureReleasesAll ==
    (last.op = "open" /\ last.ret < 0) =>
        \A r \in DOMAIN last.res : last.res[r] # "held"

InLoop == pc \in {"check", "call", "poll"}

\* C9: once run_async has been cleared while rtlsdr_wait_async is in its loop, at
\* most one further libusb_handle_events_timeout call is begun, and the call
\* returns, whatever the transfers in flight do.
C9_CancelLiveness ==
    /\ [](polls <= 1)
    /\ (InLoop /\ dev[1].run_async = 0) ~> (pc = "returned")

\* cancelled between the loop test and the poll, with every transfer in flight
C9_Witness ==
    /\ pc = "poll"
    /\ dev[1].run_async = 0
    /\ polls = 1
    /\ inflight = Slots
    /\ last.op = "cancel_async"
    /\ last.ret = 0

\* C10: whenever rtlsdr_wait_async has returned, run_async is clear and
\* rtlsdr_cancel_async reports that nothing is running.
C10_IdleAfterReturn ==
    pc = "returned" =>
        /\ dev[1].run_async = 0
        /\ cancel_async_ret(1) = -2

SampleRateSet == last.op = "set_sample_rate" /\ last.was[1] = "live"

\* C11: a set_sample_rate call with a rate above MAX_SAMP_RATE does what the call
\* with MAX_SAMP_RATE does: it returns 0, writes the halves of the ratio of
\* MAX_SAMP_RATE to registers 1:0x9f and 1:0xa1, passes the rate achieved for
\* MAX_SAMP_RATE to set_bw of a bound tuner, and get_sample_rate then returns
\* MAX_SAMP_RATE.
C11_ClampAboveMax ==
    (SampleRateSet /\ last.arg > MAX_SAMP_RATE) =>
        LET ratio == rsamp_ratio(MAX_SAMP_RATE)
        IN /\ last.ret = 0
           /\ last.ub = "none"
           /\ last.io = <<IO("demod_write_reg", "1:0x9f", ratio[1]),
                          IO("demod_write_reg", "1:0xa1", ratio[2])>>
           /\ last.args = IF last.was[2] = NoTuner THEN <<>>
                          ELSE <<real_rate(ratio, 0)>>
           /\ Len(last.calls) = Len(last.args)
           /\ rtlsdr_get_sample_rate(last.h) = MAX_SAMP_RATE

\* MAX_SAMP_RATE + 1 requested with a tuner bound: ratio 0x02400000, 3200000 Hz forwarded
C11_Witness ==
    /\ SampleRateSet
    /\ last.arg = MAX_SAMP_RATE + 1
    /\ last.io = <<IO("demod_write_reg", "1:0x9f", 576), IO("demod_write_reg", "1:0xa1", 0)>>
    /\ last.calls # <<>>
    /\ last.args = <<3200000>>
    /\ dev[last.h].rate = 3200000

\* C12: for a requested rate r with 0 < r <= MAX_SAMP_RATE the ratio written is
\* floor(CRYSTAL_FREQ * 2^22 / r) with the low two bits cleared, a multiple of 4, and
\* the rate achieved, CRYSTAL_FREQ * 2^22 / ratio, is within achieved * 2^-20 of r:
\* CRYSTAL_FREQ * 2^22 - r * ratio lies between 0 and CRYSTAL_FREQ * 4.
C12_RatioExact ==
    (SampleRateSet /\ last.arg > 0 /\ last.arg <= MAX_SAMP_RATE) =>
        LET r    == last.arg
            top  == CRYSTAL_FREQ * 64
            hi   == top \div r
            r0   == top % r
            d1   == (r0 * 256) \div r
            r1   == (r0 * 256) % r
            d2   == (r1 * 256) \div r
            rem  == (r1 * 256) % r
            lo   == d1 * 256 + d2
            whi  == last.io[1].v
            wlo  == last.io[2].v
        IN /\ last.ub = "none"
           /\ wlo % 4 = 0
           /\ whi = hi
           /\ wlo = lo - (lo % 4)
           \* with equal high halves the quotient exceeds the ratio by lo - wlo
           /\ lo - wlo >= 0
           /\ lo - wlo <= (CRYSTAL_FREQ * 4 - rem) \div r

\* C13: a demodulator register read that directly follows a write of v to the same
\* page and address with the same length returns v.
C13_DemodRoundTrip ==
    [][(last.op = "demod_write_reg" /\ last'.op = "demod_read_reg"
            /\ last'.reg = last.reg)
         => last'.ret = last.arg]_vars

\* positions on the bus of the devices the catalogue lists
Supported == {p \in 1..Len(bus) : find_known_device(bus[p][1], bus[p][2]) # 0}

\* index names one of the supported devices attached
InRange(index) == index[1] = 0 /\ index[2] < Cardinality(Supported)

\* the bus position of the supported device number index, counted from 0
NthSupported(index) ==
    CHOOSE p \in Supported : Cardinality({q \in Supported : q < p}) = index[2]

\* C14: rtlsdr_get_device_name(index) returns the catalogue name of the supported
\* device number index in bus order, and the empty string when fewer than index + 1
\* supported devices are attached.
C14_DeviceName ==
    last.op = "get_device_name" =>
        last.name = IF InRange(last.index)
                    THEN LET p == NthSupported(last.index)
                         IN devices[find_known_device(bus[p][1], bus[p][2])].name
                    ELSE ""

\* C15: rtlsdr_open(index) succeeds only on the supported device number index in bus
\* order; with fewer than index + 1 supported devices attached it returns -1 and opens
\* no device.
C15_OpenByIndex ==
    last.op = "open" =>
        IF InRange(last.index)
        THEN last.ret = 0 => dev[last.h].devh = NthSupported(last.index)
        ELSE last.ret = -1 /\ last.res.devh = "none"

\* the handle variable holds NULL or an open handle
Usable(h) == dev[h].ptr \in {"null", "live"}

\* C16: the status set_freq_correction returns for a ppm equal to the current
\* correction differs from the status it returns without a handle or without a tuner,
\* and neither is the success status 0.
C16_StatusesDistinguishable ==
    \A g \in Handles, h \in Handles, ppm \in Ppms :
        (Usable(g) /\ Usable(h) /\ NoDevOrTuner(g) /\ ~NoDevOrTuner(h)
            /\ rtlsdr_get_freq_correction(h) = ppm) =>
                /\ set_freq_correction_ret(h, ppm, 0) # set_freq_correction_ret(g, ppm, 0)
                /\ set_freq_correction_ret(h, ppm, 0) # 0
                /\ set_freq_correction_ret(g, ppm, 0) # 0

\* C17: a setter that returns a failure status leaves what the three getters return
\* on its handle as it was before the call.
C17_CacheChangesOnlyOnSuccess ==
    [][\A g \in Handles :
          (last'.op \in Setters /\ last'.h = g /\ last'.ret # 0 /\ Usable(g)) =>
              /\ rtlsdr_get_center_freq(g)' = rtlsdr_get_center_freq(g)
              /\ rtlsdr_get_freq_correction(g)' = rtlsdr_get_freq_correction(g)
              /\ rtlsdr_get_tuner_gain(g)' = rtlsdr_get_tuner_gain(g)]_vars

\* C18: the handler of a transfer that finished with status completed calls the user
\* callback once, with the buffer its descriptor was filled with (the buffer of the
\* same slot) and the actual length, and resubmits that descriptor; for any other
\* status it makes no callback and no resubmission. While rtlsdr_wait_async stays in
\* its loop the number of transfers in flight does not grow, and it never exceeds
\* BUF_COUNT.
C18_CompletionHandling ==
    /\ [](done.status = "completed" =>
            /\ done.cb = <<[buf |-> done.slot, len |-> done.len]>>
            /\ done.submit = <<done.slot>>
            /\ dev[1].ptr = "live" => dev[1].fill[done.slot] = done.slot)
    /\ [](done.status \notin {"completed", "none"} =>
            /\ done.cb = <<>>
            /\ done.submit = <<>>)
    /\ [](Cardinality(inflight) <= BUF_COUNT)
    /\ [][(InLoop /\ InLoop') => Cardinality(inflight') <= Cardinality(inflight)]_vars
    /\ [][(pc = "poll" /\ done' # done /\ done'.status = "completed") =>
             inflight' = inflight]_vars
    /\ [][(pc = "poll" /\ done' # done /\ done'.status # "completed") =>
             inflight' = inflight \ {done'.slot}]_vars

\* a short transfer of the last slot completed after another transfer was dropped
C18_Witness ==
    /\ pc = "poll"
    /\ done.status = "completed"
    /\ done.slot = BUF_COUNT
    /\ done.len = 512
    /\ done.cb = <<[buf |-> BUF_COUNT, len |-> 512]>>
    /\ Cardinality(inflight) = BUF_COUNT - 1
    /\ BUF_COUNT \in inflight

\* rtlsdr_wait_async passes from its entry to the loop test
StartStep == pc \in {"idle", "returned"} /\ pc' = "check"

\* C19: rtlsdr_wait_async allocates a descriptor or a buffer only for a slot that
\* holds none, so only on the first start of a handle; the descriptor of slot i is
\* filled with the buffer of slot i; no call but close releases a slot, and an open
\* handle never loses one.
C19_PoolsAllocatedOnce ==
    /\ [](last.op # "close" => last.free = NoPool)
    /\ [](dev[1].ptr = "live" =>
            /\ dev[1].xfer \in {{}, Slots}
            /\ dev[1].xfer_buf = dev[1].xfer
            /\ \A i \in dev[1].xfer : dev[1].fill[i] = i)
    /\ [][StartStep =>
            /\ last'.alloc.xfer \cap dev[1].xfer = {}
            /\ last'.alloc.buf \cap dev[1].xfer_buf = {}
            /\ dev[1].xfer # {} => last'.alloc = NoPool]_vars
    /\ [][(dev[1].ptr = "live" /\ dev'[1].ptr = "live") =>
            /\ dev[1].xfer \subseteq dev'[1].xfer
            /\ dev[1].xfer_buf \subseteq dev'[1].xfer_buf]_vars

\* a second start on the same handle: nothing allocated, every slot kept
C19_Witness ==
    /\ pc = "check"
    /\ last.op = "wait_async_enter"
    /\ last.alloc = NoPool
    /\ dev[1].xfer = Slots
    /\ dev[1].xfer_buf = Slots
    /\ \A i \in Slots : dev[1].fill[i] = i

\* C20: rtlsdr_wait_async submits no descriptor that is in flight at that moment.
C20_NoDoubleSubmit ==
    last.op = "wait_async_enter" => last.io[1].v = 0

\* C21: the descriptors and buffers an rtlsdr_close call released on an open handle
\* include none whose transfer is submitted to the USB transport.
C21_CloseFreesNothingInFlight ==
    (last.op = "close" /\ last.was[1] = "live") =>
        (last.free.xfer \cup last.free.buf) \cap inflight = {}

====
